---- MODULE Spec2Model ----
\* A model of package timer (github.com/tkennon/timer): the interval sequences
\* (constant, linear, exponential), the Timer's configuration and Start / Reset /
\* Stop, and the goroutine each accepted Start spawns.
\*
\* Durations are integers (time.Duration is an integer count). The floating
\* point values of the package (the jitter fraction, the magnitude, the
\* exponential multiplier) are fixed-point numbers with denominator Scale:
\* the value 2 stands for 0.2, -5 for -0.5, 20 for 2.0.
EXTENDS Integers, Sequences, FiniteSets, TLC

\* ---------------------------------------------------------------- bounds

\* The number of Start() calls of one run.
MaxStarts == 2

\* The number of Start() calls of a run that awaits each wait before the next.
MaxRun == 5

\* The width of a duration: time.Duration is an int64, which the model
\* narrows to a signed integer of DurationBits value bits, so that its range
\* is reached within a run.
DurationBits == 15

\* The denominator of the fixed-point floats (tenths).
Scale == 2 * 5

\* ------------------------------------------------------ inputs of the model

\* The values the random source returns: the range [-1.0, 1.0) in tenths.
Magnitudes == {-10, -5, 9}

\* The arguments of WithJitter (0.2, 2.5).
Fractions == {2, 25}

\* The arguments of WithMinInterval, WithMaxInterval and WithMaxDuration.
MinIntervals == {3, 12}
MaxIntervals == {8}
MaxDurations == {-1, 4, 10}

\* The contexts of the caller; Background is never cancelled.
Background == "background"
Contexts == {Background, "ctx1"}

\* The values of t.f: nil, or a callback.
Nil == "nil"
Funcs == {Nil, "f1"}

\* The capacity of the channel Start returns: make(chan time.Time, 1).
Capacity == 1

\* ------------------------------------------------------------ the errors

ErrMaxDurationElapsed == "maximum timer duration elapsed"
ErrInvalidSettings == "invalid timer settings"

\* ------------------------------------------------------- float conversions

\* time.Duration(x) of a float x = num/den: the fraction is discarded
\* (truncation toward zero), where \div rounds toward minus infinity.
Trunc(num, den) ==
    IF num >= 0 THEN num \div den ELSE -((-num) \div den)

\* --------------------------------------------------------- the sequences

\* The interval of a Timer: its kind and the fields of that kind's struct.
NewConstant(d) ==
    [kind |-> "constant", initial |-> d, current |-> d,
     increment |-> 0, multiplier |-> Scale]

NewLinear(initial, increment) ==
    [kind |-> "linear", initial |-> initial, current |-> initial,
     increment |-> increment, multiplier |-> Scale]

NewExponential(initial, multiplier) ==
    [kind |-> "exponential", initial |-> initial, current |-> initial,
     increment |-> 0, multiplier |-> multiplier]

\* next() of each kind: the value returned (val) and the sequence after (seq).
ConstantNext(c) == [val |-> c.current, seq |-> c]

\* next() returning the advanced value instead of the one before.
LinearNextAdvanced(l) ==
    [val |-> l.current + l.increment,
     seq |-> [l EXCEPT !.current = l.current + l.increment]]

LinearNext(l) ==
    [val |-> l.current,
     seq |-> [l EXCEPT !.current = l.current + l.increment]]

\* The range of a duration.
MaxInt64 == 2 ^ DurationBits - 1
MinInt64 == -(2 ^ DurationBits)

\* What the conversion of a float outside that range to an integer yields is
\* left to the implementation: the smallest integer whatever the sign
\* ("indefinite", amd64), or the nearest end of the range ("saturate",
\* arm64).
Conversions == {"indefinite", "saturate"}

\* An exponential sequence of a build with conversion b. The sequences of the
\* models that never leave the range carry no build.
Built(e, b) ==
    [kind |-> e.kind, initial |-> e.initial, current |-> e.current,
     increment |-> e.increment, multiplier |-> e.multiplier, conversion |-> b]

\* time.Duration(c), c in units of 1/Scale: truncation toward zero.
Duration(c, e) ==
    LET d == Trunc(c, Scale)
    IN IF d > MaxInt64 \/ d < MinInt64
       THEN IF e.conversion = "saturate" /\ d > 0 THEN MaxInt64 ELSE MinInt64
       ELSE d

\* c := float32(e.current) * e.multiplier, in units of 1/Scale; the update is
\* kept only when c has the multiplier's sign. The float does not wrap: a
\* product beyond the integers' range, or infinite, keeps its sign.
ExponentialNext(e) ==
    LET c == e.current * e.multiplier
    IN [val |-> e.current,
        seq |-> IF (e.multiplier > 0 /\ c > 0) \/ (e.multiplier < 0 /\ c < 0)
                THEN [e EXCEPT !.current = Duration(c, e)]
                ELSE e]

IntervalNext(i) ==
    CASE i.kind = "constant" -> ConstantNext(i)
      [] i.kind = "linear" -> LinearNext(i)
      [] i.kind = "exponential" -> ExponentialNext(i)

\* reset() of each kind.
ConstantReset(c) == c
\* A reset() that leaves the sequence where it is.
LinearResetKept(l) == l

LinearReset(l) == [l EXCEPT !.current = l.initial]
ExponentialReset(e) == [e EXCEPT !.current = e.initial]

IntervalReset(i) ==
    CASE i.kind = "constant" -> ConstantReset(i)
      [] i.kind = "linear" -> LinearReset(i)
      [] i.kind = "exponential" -> ExponentialReset(i)

\* ------------------------------------------------------------- the state

VARIABLES
    interval,        \* t.interval
    ctx,             \* t.ctx
    total,           \* t.total
    jitter,          \* t.jitter
    minIntervalSet,  \* t.minIntervalSet
    minInterval,     \* t.minInterval
    maxIntervalSet,  \* t.maxIntervalSet
    maxInterval,     \* t.maxInterval
    maxDurationSet,  \* t.maxDurationSet
    maxDuration,     \* t.maxDuration
    f,               \* t.f
    cancelled,       \* the contexts whose Done() channel is closed
    waits,           \* one entry per accepted Start: its goroutine and channel
    ret,             \* what the caller's last call returned
    starts,          \* the number of Start() calls so far
    nth,             \* the number of next() calls since construction or reset()
    stopped,         \* the number of Stop() calls that returned true
    exceeded,        \* a Start() has failed with ErrMaxDurationElapsed since
                     \* the timer was last configured
    accepted         \* history, kept by the configuration model only: t.f
                     \* and t.ctx as they were when each wait was accepted,
                     \* and whether that context was not yet cancelled

config == <<jitter, minIntervalSet, minInterval, maxIntervalSet, maxInterval,
            maxDurationSet, maxDuration>>

vars == <<interval, ctx, total, config, f, cancelled, waits, ret, starts, nth,
          stopped, exceeded, accepted>>

\* The positions of a spawned goroutine (timer.go:146-158):
\*   spawned    created by the go statement, select not yet entered
\*   select     blocked in the select on ctx.Done(), t.stop and the sleep
\*   fired      the sleep's case was taken, ch <- now not yet executed
\*   sent       ch <- now executed, t.f not yet looked at
\*   done       returned after the sleep's case
\*   cancelled  returned by the ctx.Done() case
\*   stopped    returned by the t.stop case
InFlight == {"spawned", "select"}

\* What a call returned. A Start also records the values of its locals: the
\* raw interval, the jittered interval, the magnitude drawn and the final next.
NoCall ==
    [op |-> "none", err |-> Nil, ch |-> 0, ok |-> FALSE,
     raw |-> 0, jittered |-> 0, next |-> 0, mag |-> 0]

Returned(op) == [NoCall EXCEPT !.op = op]

\* ----------------------------------------------------------- construction

\* newTimer: the background context, no bounds, no callback, nothing spent.
NewTimer(i) ==
    /\ interval = i
    /\ ctx = Background
    /\ total = 0
    /\ jitter = 0
    /\ minIntervalSet = FALSE /\ minInterval = 0
    /\ maxIntervalSet = FALSE /\ maxInterval = 0
    /\ maxDurationSet = FALSE /\ maxDuration = 0
    /\ f = Nil
    /\ cancelled = {}
    /\ waits = <<>>
    /\ ret = NoCall
    /\ starts = 0
    /\ nth = 0
    /\ stopped = 0
    /\ exceeded = FALSE
    /\ accepted = <<>>

\* --------------------------------------------------------- the modifiers

WithJitter(fraction) ==
    /\ jitter' = fraction
    /\ ret' = Returned("With")
    /\ exceeded' = FALSE
    /\ UNCHANGED accepted
    /\ UNCHANGED <<interval, ctx, total, minIntervalSet, minInterval,
                   maxIntervalSet, maxInterval, maxDurationSet, maxDuration,
                   f, cancelled, waits, starts, nth, stopped>>

WithMinInterval(d) ==
    /\ minInterval' = d
    /\ minIntervalSet' = TRUE
    /\ ret' = Returned("With")
    /\ exceeded' = FALSE
    /\ UNCHANGED accepted
    /\ UNCHANGED <<interval, ctx, total, jitter, maxIntervalSet, maxInterval,
                   maxDurationSet, maxDuration, f, cancelled, waits, starts,
                   nth, stopped>>

WithMaxInterval(d) ==
    /\ maxInterval' = d
    /\ maxIntervalSet' = TRUE
    /\ ret' = Returned("With")
    /\ exceeded' = FALSE
    /\ UNCHANGED accepted
    /\ UNCHANGED <<interval, ctx, total, jitter, minIntervalSet, minInterval,
                   maxDurationSet, maxDuration, f, cancelled, waits, starts,
                   nth, stopped>>

WithMaxDuration(d) ==
    /\ maxDuration' = d
    /\ maxDurationSet' = TRUE
    /\ ret' = Returned("With")
    /\ exceeded' = FALSE
    /\ UNCHANGED accepted
    /\ UNCHANGED <<interval, ctx, total, jitter, minIntervalSet, minInterval,
                   maxIntervalSet, maxInterval, f, cancelled, waits, starts,
                   nth, stopped>>

WithContext(c) ==
    /\ ctx' = c
    /\ ret' = Returned("With")
    /\ exceeded' = FALSE
    /\ UNCHANGED accepted
    /\ UNCHANGED <<interval, total, config, f, cancelled, waits, starts, nth,
                   stopped>>

WithFunc(g) ==
    /\ f' = g
    /\ ret' = Returned("With")
    /\ exceeded' = FALSE
    /\ UNCHANGED accepted
    /\ UNCHANGED <<interval, ctx, total, config, cancelled, waits, starts,
                   nth, stopped>>

\* ------------------------------------------------------------------ Start

\* The sanity check with the comparison the wrong way round.
InvalidSettingsReversed ==
    minIntervalSet /\ maxIntervalSet /\ minInterval < maxInterval

\* The sanity check of the min/max intervals.
InvalidSettings ==
    minIntervalSet /\ maxIntervalSet /\ minInterval > maxInterval

\* The jitter with the product of the floats rounded away from zero instead
\* of truncated.
AddJitterRounded(next, fraction, m) ==
    LET p == fraction * m
        whole == Trunc(p, Scale * Scale)
        away == IF p = whole * Scale * Scale THEN whole
                ELSE IF p > 0 THEN whole + 1 ELSE whole - 1
    IN next + away * next

\* next += time.Duration(t.jitter*magnitude()) * next: the product of the two
\* floats is converted to a Duration before it multiplies next.
AddJitter(next, fraction, m) ==
    next + Trunc(fraction * m, Scale * Scale) * next

\* A floor that only lifts negative intervals.
FloorNegative(next) ==
    IF minIntervalSet /\ next < 0 THEN minInterval ELSE next

\* Floor a single interval.
Floor(next) ==
    IF minIntervalSet /\ next < minInterval THEN minInterval ELSE next

\* Cap a single interval.
Cap(next) ==
    IF maxIntervalSet /\ next > maxInterval THEN maxInterval ELSE next

\* The cap compared with the interval alone, the total left out.
MaxDurationElapsedSingle(next) ==
    maxDurationSet /\ next > maxDuration

\* The cap compared with what has been spent so far, the interval left out.
MaxDurationElapsedBefore(next) ==
    maxDurationSet /\ total > maxDuration

\* Cap the sum of all intervals.
MaxDurationElapsed(next) ==
    maxDurationSet /\ total + next > maxDuration

\* The goroutine and the channel of an accepted Start: ch counts the values in
\* the channel's buffer, got the values the caller has received from it, ran
\* the calls of the callback; ctx is the context whose Done() the select waits
\* on, read when the select is entered.
Spawn(next) ==
    [next |-> next, pc |-> "spawned", ctx |-> Nil, ch |-> 0, got |-> 0,
     ran |-> 0]

\* A Start() that takes the element back when the cap rejects it.
StartKeepsRejected(m) ==
    /\ starts' = starts + 1
    /\ IF InvalidSettings
       THEN /\ ret' = [Returned("Start") EXCEPT !.err = ErrInvalidSettings]
            /\ UNCHANGED <<interval, total, waits, nth, exceeded>>
       ELSE LET n == IntervalNext(interval)
                jittered == AddJitter(n.val, jitter, m)
                next == Cap(Floor(jittered))
                locals == [Returned("Start") EXCEPT !.raw = n.val,
                              !.jittered = jittered, !.next = next, !.mag = m]
            IN IF MaxDurationElapsed(next)
               THEN /\ ret' = [locals EXCEPT !.err = ErrMaxDurationElapsed]
                    /\ exceeded' = TRUE
                    /\ UNCHANGED <<interval, nth, total, waits>>
               ELSE /\ interval' = n.seq
                    /\ nth' = nth + 1
                    /\ total' = total + next
                    /\ waits' = Append(waits, Spawn(next))
                    /\ ret' = [locals EXCEPT !.ch = Len(waits) + 1]
                    /\ UNCHANGED exceeded
    /\ UNCHANGED <<ctx, config, f, cancelled, stopped>>

Start(m) ==
    /\ starts' = starts + 1
    /\ IF InvalidSettings
       THEN /\ ret' = [Returned("Start") EXCEPT !.err = ErrInvalidSettings]
            /\ UNCHANGED <<interval, total, waits, nth, exceeded>>
       ELSE LET n == IntervalNext(interval)
                jittered == AddJitter(n.val, jitter, m)
                next == Cap(Floor(jittered))
                locals == [Returned("Start") EXCEPT !.raw = n.val,
                              !.jittered = jittered, !.next = next, !.mag = m]
            IN /\ interval' = n.seq
               /\ nth' = nth + 1
               /\ IF MaxDurationElapsed(next)
                  THEN /\ ret' = [locals EXCEPT !.err = ErrMaxDurationElapsed]
                       /\ exceeded' = TRUE
                       /\ UNCHANGED <<total, waits>>
                  ELSE /\ total' = total + next
                       /\ waits' = Append(waits, Spawn(next))
                       /\ ret' = [locals EXCEPT !.ch = Len(waits) + 1]
                       /\ UNCHANGED exceeded
    /\ UNCHANGED <<ctx, config, f, cancelled, stopped>>

\* ------------------------------------------------------------------ Reset

\* A Reset() that also starts the budget afresh.
ResetReplenishes ==
    /\ interval' = IntervalReset(interval)
    /\ nth' = 0
    /\ total' = 0
    /\ ret' = Returned("Reset")
    /\ UNCHANGED <<ctx, config, f, cancelled, waits, starts, stopped,
                   exceeded, accepted>>

Reset ==
    /\ interval' = IntervalReset(interval)
    /\ nth' = 0
    /\ ret' = Returned("Reset")
    /\ UNCHANGED <<ctx, total, config, f, cancelled, waits, starts, stopped,
                   exceeded, accepted>>

\* ------------------------------------------------------------------- Stop

\* Receivers with a select that is not atomic: a goroutine that has already
\* taken the sleep's case can still take the stop.
ReceiversAfterSleep ==
    {w \in DOMAIN waits : waits[w].pc \in {"select", "fired", "sent"}}

\* The goroutines blocked in the select, which can receive from t.stop.
Receivers == {w \in DOMAIN waits : waits[w].pc = "select"}

\* The send on the unbuffered t.stop succeeds when a goroutine is receiving,
\* and one of them takes it; otherwise the default case is taken.
\* A Stop() whose signal reaches a wait whatever its position, fired and
\* abandoned ones included.
StopLatched ==
    /\ \/ /\ waits = <<>>
          /\ ret' = Returned("Stop")
          /\ UNCHANGED <<waits, stopped>>
       \/ \E w \in DOMAIN waits :
             /\ waits' = [waits EXCEPT ![w].pc = "stopped"]
             /\ stopped' = stopped + 1
             /\ ret' = [Returned("Stop") EXCEPT !.ok = TRUE]
    /\ UNCHANGED <<interval, ctx, total, config, f, cancelled, starts, nth,
                   exceeded, accepted>>

\* A Stop() that gives the abandoned wait's interval back to the budget.
StopRefunds ==
    /\ \/ /\ Receivers = {}
          /\ ret' = Returned("Stop")
          /\ UNCHANGED <<waits, stopped, total>>
       \/ \E w \in Receivers :
             /\ waits' = [waits EXCEPT ![w].pc = "stopped"]
             /\ stopped' = stopped + 1
             /\ total' = total - waits[w].next
             /\ ret' = [Returned("Stop") EXCEPT !.ok = TRUE]
    /\ UNCHANGED <<interval, ctx, config, f, cancelled, starts, nth,
                   exceeded, accepted>>

Stop ==
    /\ \/ /\ Receivers = {}
          /\ ret' = Returned("Stop")
          /\ UNCHANGED <<waits, stopped>>
       \/ \E w \in Receivers :
             /\ waits' = [waits EXCEPT ![w].pc = "stopped"]
             /\ stopped' = stopped + 1
             /\ ret' = [Returned("Stop") EXCEPT !.ok = TRUE]
    /\ UNCHANGED <<interval, ctx, total, config, f, cancelled, starts, nth,
                   exceeded, accepted>>

\* ---------------------------------------------------------- the goroutine

\* The cases of the select that can proceed when it is entered: the Done()
\* channel of a cancelled context, and the sleep's channel when the interval
\* has elapsed (or the sleep primitive returned a channel already filled) by
\* the time the select polls. t.stop has no sender waiting: Stop never blocks.
Ready(c, elapsed) ==
    (IF c \in cancelled THEN {"cancelled"} ELSE {})
        \cup (IF elapsed THEN {"fired"} ELSE {})

\* The goroutine enters the select: it reads t.ctx and calls timeAfter(next).
\* One of the cases that can proceed is chosen; with none, it blocks.
EnterSelect(w) ==
    /\ waits[w].pc = "spawned"
    /\ \E elapsed \in BOOLEAN :
          LET ready == Ready(ctx, elapsed)
          IN IF ready = {}
             THEN waits' = [waits EXCEPT ![w].pc = "select", ![w].ctx = ctx]
             ELSE \E case \in ready :
                     waits' = [waits EXCEPT ![w].pc = case, ![w].ctx = ctx]
    /\ UNCHANGED <<interval, ctx, total, config, f, cancelled, ret, starts,
                   nth, stopped,
                   exceeded, accepted>>

\* The sleep elapses while the goroutine is blocked in the select.
Elapse(w) ==
    /\ waits[w].pc = "select"
    /\ waits' = [waits EXCEPT ![w].pc = "fired"]
    /\ UNCHANGED <<interval, ctx, total, config, f, cancelled, ret, starts,
                   nth, stopped,
                   exceeded, accepted>>

\* The caller cancels context c: Done() is closed and every goroutine blocked
\* on it takes that case.
Cancel(c) ==
    /\ c # Background
    /\ c \notin cancelled
    /\ cancelled' = cancelled \cup {c}
    /\ waits' = [w \in DOMAIN waits |->
                   IF waits[w].pc = "select" /\ waits[w].ctx = c
                   THEN [waits[w] EXCEPT !.pc = "cancelled"]
                   ELSE waits[w]]
    /\ UNCHANGED <<interval, ctx, total, config, f, ret, starts, nth, stopped,
                   exceeded, accepted>>

\* The send on a channel made without a buffer, which needs a receiver.
SendUnbuffered(w) ==
    /\ waits[w].pc = "fired"
    /\ waits[w].ch < Capacity - 1
    /\ waits' = [waits EXCEPT ![w].pc = "sent", ![w].ch = waits[w].ch + 1]
    /\ UNCHANGED <<interval, ctx, total, config, f, cancelled, ret, starts,
                   nth, stopped, exceeded, accepted>>

\* ch <- now, which blocks while the buffer is full.
Send(w) ==
    /\ waits[w].pc = "fired"
    /\ waits[w].ch < Capacity
    /\ waits' = [waits EXCEPT ![w].pc = "sent", ![w].ch = waits[w].ch + 1]
    /\ UNCHANGED <<interval, ctx, total, config, f, cancelled, ret, starts,
                   nth, stopped,
                   exceeded, accepted>>

\* The callback called as soon as the sleep's case is taken, in place of the
\* send.
CallbackBeforeSend(w) ==
    /\ waits[w].pc = "fired"
    /\ waits' = [waits EXCEPT ![w].pc = "done",
                              ![w].ran = IF f # Nil THEN waits[w].ran + 1
                                         ELSE waits[w].ran]
    /\ UNCHANGED <<interval, ctx, total, config, f, cancelled, ret, starts,
                   nth, stopped, exceeded, accepted>>

\* if t.f != nil { t.f() }
Callback(w) ==
    /\ waits[w].pc = "sent"
    /\ waits' = [waits EXCEPT ![w].pc = "done",
                              ![w].ran = IF f # Nil THEN waits[w].ran + 1
                                         ELSE waits[w].ran]
    /\ UNCHANGED <<interval, ctx, total, config, f, cancelled, ret, starts,
                   nth, stopped,
                   exceeded, accepted>>

\* now := <-c in the caller: it takes the value off the channel of wait w.
Receive(w) ==
    /\ waits[w].ch > 0
    /\ waits' = [waits EXCEPT ![w].ch = waits[w].ch - 1,
                              ![w].got = waits[w].got + 1]
    /\ ret' = Returned("Receive")
    /\ UNCHANGED <<interval, ctx, total, config, f, cancelled, starts, nth,
                   stopped, exceeded, accepted>>

\* ------------------------------------------------------ the specifications

Timers == {NewConstant(1), NewLinear(1, 1), NewLinear(2, -1)}

Init == \E i \in Timers : NewTimer(i)

\* The concurrency model: timers with no jitter and no bounds (the magnitude
\* drawn has no effect), a context and a callback that the caller sets and
\* cancels at any time.
Next ==
    \/ starts < MaxStarts /\ Start(0) /\ UNCHANGED accepted
    \/ Reset
    \/ Stop
    \/ \E c \in Contexts : WithContext(c)
    \/ \E g \in Funcs : WithFunc(g)
    \/ \E c \in Contexts : Cancel(c)
    \/ \E w \in DOMAIN waits : EnterSelect(w)
    \/ \E w \in DOMAIN waits : Elapse(w)
    \/ \E w \in DOMAIN waits : Send(w)
    \/ \E w \in DOMAIN waits : Callback(w)

Spec == Init /\ [][Next]_vars

\* The interval model: the timers of every kind, configured by modifiers
\* chained before the first Start (the usage the package documents), then
\* started, reset and stopped while the spawned goroutines run.
IntervalTimers ==
    {NewConstant(10), NewLinear(5, -2), NewExponential(1, 20)}

InitInterval == \E i \in IntervalTimers : NewTimer(i)

NextInterval ==
    \/ starts < MaxStarts /\ UNCHANGED accepted
          /\ \E m \in Magnitudes : Start(m)
    \/ Reset
    \/ Stop
    \/ starts = 0 /\ \E fraction \in Fractions : WithJitter(fraction)
    \/ starts = 0 /\ \E d \in MinIntervals : WithMinInterval(d)
    \/ starts = 0 /\ \E d \in MaxIntervals : WithMaxInterval(d)
    \/ starts = 0 /\ \E d \in MaxDurations : WithMaxDuration(d)
    \/ \E w \in DOMAIN waits : EnterSelect(w)
    \/ \E w \in DOMAIN waits : Elapse(w)
    \/ \E w \in DOMAIN waits : Send(w)
    \/ \E w \in DOMAIN waits : Callback(w)

SpecInterval == InitInterval /\ [][NextInterval]_vars

\* The run model: the loop of the examples and tests, which starts the timer
\* and receives from the channel before it starts it again, with a callback
\* set before the first Start and a Reset between two waits.
RunTimers ==
    {NewConstant(10), NewLinear(1, 1), NewLinear(5, -1),
     NewExponential(1, 20), NewExponential(1000, 15), NewExponential(3, 5),
     NewExponential(1, -20), NewExponential(-1, 20)}

InitRun == \E i \in RunTimers : NewTimer(i)

\* The caller is not waiting on a channel: every wait's value was received.
Idle == \A w \in DOMAIN waits : waits[w].got > 0

NextRun ==
    \/ starts = 0 /\ \E g \in Funcs : WithFunc(g)
    \/ Idle /\ starts < MaxRun /\ Start(0) /\ UNCHANGED accepted
    \/ Idle /\ Reset
    \/ \E w \in DOMAIN waits : Receive(w)
    \/ \E w \in DOMAIN waits : EnterSelect(w)
    \/ \E w \in DOMAIN waits : Elapse(w)
    \/ \E w \in DOMAIN waits : Send(w)
    \/ \E w \in DOMAIN waits : Callback(w)

SpecRun == InitRun /\ [][NextRun]_vars

\* The run of runFiveTimes on exponential timers whose interval reaches the
\* end of the range of a duration, on each build.
OverflowTimers ==
    {Built(NewExponential(2 ^ (DurationBits - 2), 20), b) : b \in Conversions}
        \cup {Built(NewExponential(2 ^ (DurationBits - 3), 15), b) :
                  b \in Conversions}

InitOverflow == \E i \in OverflowTimers : NewTimer(i)

SpecOverflow == InitOverflow /\ [][NextRun]_vars

\* The concurrency model of one constant timer under a fair scheduler and a
\* sleep that elapses: a goroutine that can take a step takes it, and the
\* sleep of a goroutine that stays blocked in its select elapses. The caller
\* starts, stops, sets the context and cancels as it likes, is under no
\* obligation, and never reads a channel.
InitFair == NewTimer(NewConstant(1))

Fairness ==
    \A w \in 1..MaxStarts :
        /\ WF_vars(w \in DOMAIN waits /\ EnterSelect(w))
        /\ WF_vars(w \in DOMAIN waits /\ Elapse(w))
        /\ WF_vars(w \in DOMAIN waits /\ Send(w))
        /\ WF_vars(w \in DOMAIN waits /\ Callback(w))

NextFair ==
    \/ starts < MaxStarts /\ Start(0) /\ UNCHANGED accepted
    \/ Stop
    \/ \E c \in Contexts : WithContext(c)
    \/ \E c \in Contexts : Cancel(c)
    \/ \E w \in DOMAIN waits : EnterSelect(w)
    \/ \E w \in DOMAIN waits : Elapse(w)
    \/ \E w \in DOMAIN waits : Send(w)
    \/ \E w \in DOMAIN waits : Callback(w)

SpecFair == InitFair /\ [][NextFair]_vars /\ Fairness

\* The configuration model: a constant timer whose callback and context the
\* caller sets, and cancels, at any time around the Starts and Stops; the
\* history of what t.f and t.ctx were at each accepted Start, and of whether
\* that context was still live, is kept.
Record ==
    accepted' = IF Len(waits') > Len(waits)
                THEN Append(accepted, [f |-> f, ctx |-> ctx,
                                       live |-> ctx \notin cancelled])
                ELSE accepted

InitConfig == NewTimer(NewConstant(1))

NextConfig ==
    \/ starts < MaxStarts /\ Start(0) /\ Record
    \/ Stop
    \/ \E c \in Contexts : WithContext(c)
    \/ \E g \in Funcs : WithFunc(g)
    \/ \E c \in Contexts : Cancel(c)
    \/ \E w \in DOMAIN waits : EnterSelect(w)
    \/ \E w \in DOMAIN waits : Elapse(w)
    \/ \E w \in DOMAIN waits : Send(w)
    \/ \E w \in DOMAIN waits : Callback(w)

SpecConfig == InitConfig /\ [][NextConfig]_vars

\* ------------------------------------------------------------ the claims

\* The waits the Stop() calls have abandoned.
StoppedWaits == {w \in DOMAIN waits : waits[w].pc = "stopped"}

\* C1: a Stop() that returns true abandons exactly one wait that was in
\* flight (accepted, not fired, not abandoned) and leaves the others as they
\* were; an abandoned wait has nothing on its channel and its callback has not
\* run, in any later state; and the waits abandoned are as many as the Stop()
\* calls that returned true, so no wait accounts for two of them.
C1_StopAbandonsOneWait ==
    /\ [](/\ stopped = Cardinality(StoppedWaits)
          /\ \A w \in StoppedWaits : waits[w].ch = 0 /\ waits[w].ran = 0)
    /\ [][stopped' = stopped + 1 =>
            /\ ret'.op = "Stop" /\ ret'.ok
            /\ \E w \in DOMAIN waits :
                  /\ waits[w].pc \in InFlight
                  /\ waits[w].ch = 0 /\ waits[w].ran = 0
                  /\ waits'[w].pc = "stopped"
                  /\ \A v \in DOMAIN waits \ {w} : waits'[v] = waits[v]]_vars

\* C1, witness: with a callback registered, one wait was stopped and another
\* ran to completion.
C1_Witness ==
    /\ f # Nil
    /\ stopped = 1
    /\ \E w, v \in DOMAIN waits :
          /\ waits[w].pc = "stopped"
          /\ waits[v].pc = "done" /\ waits[v].ran = 1

\* C2: a Stop() before any Start() returns false; a Stop() called right after
\* a successful Start() whose wait has not elapsed returns true, and stops
\* that wait, whose channel then never receives a value.
C2_StopRightAfterStart ==
    /\ []((ret.op = "Stop" /\ starts = 0) => ~ret.ok)
    /\ [][(/\ ret.op = "Start" /\ ret.err = Nil
            /\ waits[ret.ch].pc \in InFlight
            /\ ret'.op = "Stop")
           => (ret'.ok /\ waits'[ret.ch].pc = "stopped")]_vars

\* The context a wait's select waits on: the one it read when it entered the
\* select, t.ctx when it has yet to enter it.
WaitCtx(w) == IF waits[w].pc = "spawned" THEN ctx ELSE waits[w].ctx

\* C3: a wait in flight whose context has been cancelled never takes the
\* sleep's case (so it neither sends nor runs the callback), and a Start()
\* called with a cancelled context returns a channel and no error.
C3_CancelledNeverFires ==
    /\ []((ret.op = "Start" /\ ctx \in cancelled)
            => (ret.err = Nil /\ ret.ch \in DOMAIN waits))
    /\ [][\A w \in DOMAIN waits :
            (waits[w].pc \in InFlight /\ WaitCtx(w) \in cancelled)
                => waits'[w].pc # "fired"]_vars

\* A step that is a call of Start().
IsStart == starts' = starts + 1

\* C4: once a Start() has failed with ErrMaxDurationElapsed, and the timer has
\* not been configured since, every later Start() fails with it too, whatever
\* Reset() and Stop() calls come between.
C4_ExceededStays ==
    [][(exceeded /\ IsStart) => ret'.err = ErrMaxDurationElapsed]_vars

\* C5: a Start() that computes, with a cap set, an interval with
\* total + interval > cap returns ErrMaxDurationElapsed and a nil channel,
\* leaves total as it was and spawns no goroutine and no channel.
C5_OverCapRejected ==
    [][(/\ IsStart
        /\ ~(minIntervalSet /\ maxIntervalSet /\ minInterval > maxInterval)
        /\ maxDurationSet
        /\ total + ret'.next > maxDuration)
       => (/\ ret'.err = ErrMaxDurationElapsed
           /\ ret'.ch = 0
           /\ total' = total
           /\ waits' = waits)]_vars

\* C5, witness: after an accepted Start(), a Start() was rejected for the cap
\* and nothing was added to total.
C5_Witness ==
    /\ ret.op = "Start" /\ ret.err = ErrMaxDurationElapsed
    /\ maxDurationSet
    /\ Len(waits) = 1 /\ total = waits[1].next
    /\ total + ret.next > maxDuration

\* C6: with a minimum greater than the maximum, both set, a Start() returns
\* ErrInvalidSettings and a nil channel, and the sequence, total and the
\* waits are as they were.
C6_InvalidSettingsRejected ==
    [][(/\ IsStart
        /\ minIntervalSet /\ maxIntervalSet /\ minInterval > maxInterval)
       => (/\ ret'.err = ErrInvalidSettings
           /\ ret'.ch = 0
           /\ interval' = interval
           /\ nth' = nth
           /\ total' = total
           /\ waits' = waits)]_vars

\* C6, witness: a second Start() in a row failed with ErrInvalidSettings.
C6_Witness ==
    /\ ret.op = "Start" /\ ret.err = ErrInvalidSettings
    /\ minInterval > maxInterval
    /\ starts = 2 /\ nth = 0 /\ total = 0 /\ waits = <<>>

\* C7: the interval a Start() computes before clamping is
\* raw + f*m*raw, for the jitter fraction f and the magnitude m drawn
\* (both in units of 1/Scale).
C7_JitterIsProportional ==
    (ret.op = "Start" /\ ret.err # ErrInvalidSettings)
        => Scale * Scale * ret.jittered
               = Scale * Scale * ret.raw + jitter * ret.mag * ret.raw

\* C8: with no minimum and no maximum set, a jitter fraction f >= 0 and a raw
\* interval b >= 0, the interval an accepted Start() requests lies in
\* [b - f*b, b + f*b].
C8_JitterWithinFraction ==
    (/\ ret.op = "Start" /\ ret.err = Nil
     /\ ~minIntervalSet /\ ~maxIntervalSet
     /\ jitter >= 0 /\ ret.raw >= 0)
        => /\ Scale * waits[ret.ch].next >= Scale * ret.raw - jitter * ret.raw
           /\ Scale * waits[ret.ch].next <= Scale * ret.raw + jitter * ret.raw

\* C8, witness: a jitter of 2.5 with magnitude -1.0 moved the interval of an
\* accepted Start() below zero.
C8_Witness ==
    /\ ret.op = "Start" /\ ret.err = Nil
    /\ ~minIntervalSet /\ ~maxIntervalSet
    /\ jitter = 25 /\ ret.mag = -10 /\ ret.raw > 0
    /\ waits[ret.ch].next < 0

\* C9: the interval of an accepted Start() is at least the minimum, if one
\* is set, and at most the maximum, if one is set.
C9_IntervalWithinBounds ==
    (ret.op = "Start" /\ ret.err = Nil)
        => /\ minIntervalSet => waits[ret.ch].next >= minInterval
           /\ maxIntervalSet => waits[ret.ch].next <= maxInterval

\* C9, witness: with jitter, a minimum and a maximum set, the second Start()
\* computed an interval outside the bounds and was accepted.
C9_Witness ==
    /\ ret.op = "Start" /\ ret.err = Nil /\ starts = 2
    /\ minIntervalSet /\ maxIntervalSet /\ jitter # 0
    /\ (ret.jittered < minInterval \/ ret.jittered > maxInterval)

\* C10: with no jitter and no bounds, the i-th Start() of a linear timer
\* since construction or the last Reset() (from 0) requests
\* initial + i*increment.
C10_LinearIthInterval ==
    (/\ ret.op = "Start" /\ ret.err = Nil
     /\ interval.kind = "linear"
     /\ jitter = 0
     /\ ~minIntervalSet /\ ~maxIntervalSet /\ ~maxDurationSet)
        => waits[ret.ch].next
               = interval.initial + (nth - 1) * interval.increment

\* C10, witness: the second Start() of a linear timer, after the first wait
\* was stopped.
C10_Witness ==
    /\ ret.op = "Start" /\ ret.err = Nil
    /\ interval.kind = "linear" /\ nth = 2
    /\ ret.ch = 2 /\ waits[1].pc = "stopped"

\* b to the power n.
RECURSIVE Pow(_, _)
Pow(b, n) == IF n = 0 THEN 1 ELSE b * Pow(b, n - 1)

Abs(x) == IF x < 0 THEN -x ELSE x

\* The rounding tolerance of the i-th interval of an exponential sequence with
\* multiplier m, in units of 1/Scale^i: each conversion to a Duration loses
\* less than one unit, and every later multiplication scales that loss.
RECURSIVE Tolerance(_, _)
Tolerance(m, i) ==
    IF i = 0 THEN 0 ELSE Abs(m) * Tolerance(m, i - 1) + Pow(Scale, i)

\* The last call was an accepted Start() of a timer with no jitter and no
\* bounds.
PlainStart ==
    /\ ret.op = "Start" /\ ret.err = Nil
    /\ jitter = 0
    /\ ~minIntervalSet /\ ~maxIntervalSet /\ ~maxDurationSet

\* C11: with no jitter and no bounds, the i-th Start() of an exponential
\* timer (from 0) requests initial * multiplier^i within the rounding
\* tolerance, and exactly that when the multiplier is a whole number.
C11_ExponentialIthInterval ==
    (PlainStart /\ interval.kind = "exponential")
        => LET i == nth - 1
               m == interval.multiplier
               exact == interval.initial * Pow(m, i)
               actual == Pow(Scale, i) * waits[ret.ch].next
           IN /\ Abs(exact - actual) <= Tolerance(m, i)
              /\ (m % Scale = 0) => actual = exact

\* C12: the Start() that follows a Reset() requests the sequence's first
\* value (initial, or the constant's interval), whatever number of Starts
\* and Reset cycles came before; a Reset() right after a Reset() changes
\* nothing.
C12_ResetRestartsSequence ==
    /\ [][(ret.op = "Reset" /\ IsStart /\ jitter = 0
            /\ ~minIntervalSet /\ ~maxIntervalSet /\ ~maxDurationSet)
           => (/\ ret'.err = Nil
               /\ waits'[ret'.ch].next = interval.initial)]_vars
    /\ [][(ret.op = "Reset" /\ ret'.op = "Reset")
           => interval' = interval]_vars

\* C12, witness: a linear timer was started twice, reset, started, reset and
\* started again, and the last two Starts requested the initial interval.
C12_Witness ==
    /\ interval.kind = "linear"
    /\ ret.op = "Start" /\ starts = 4 /\ nth = 1
    /\ waits[2].next # interval.initial
    /\ waits[3].next = interval.initial
    /\ waits[4].next = interval.initial

\* The values sent so far on the channel of wait w: those still in its buffer
\* and those the caller has received.
Sent(w) == waits[w].ch + waits[w].got

\* C13: a wait that took the sleep's case sends exactly one value, and then
\* calls the callback exactly once if t.f is set; the callback has run at
\* most once, only after the send, and never for a wait that has not sent.
C13_SendThenCallbackOnce ==
    /\ [](\A w \in DOMAIN waits :
            /\ Sent(w) <= 1 /\ waits[w].ran <= 1
            /\ (waits[w].pc \in {"sent", "done"}) <=> (Sent(w) = 1)
            /\ (waits[w].ran = 1) => (Sent(w) = 1 /\ waits[w].pc = "done"))
    /\ [][\A w \in DOMAIN waits :
            (waits[w].pc = "sent" /\ waits'[w].pc # "sent")
                => /\ waits'[w].pc = "done"
                   /\ waits'[w].ran = (IF f # Nil THEN 1 ELSE 0)]_vars

\* C13, witness: one wait sent and ran the callback, and another sent with no
\* callback set.
C13_Witness ==
    \E w, v \in DOMAIN waits :
        /\ waits[w].pc = "done" /\ waits[w].ch = 1 /\ waits[w].ran = 1
        /\ waits[v].pc = "done" /\ waits[v].ch = 1 /\ waits[v].ran = 0

\* C14: with a callback set, once the caller has received the value of a
\* wait, and so goes on to its next step, that wait's callback has run.
C14_CallbackBeforeCaller ==
    \A w \in DOMAIN waits :
        (waits[w].got = 1 /\ f # Nil) => waits[w].ran = 1

\* C15: a wait keeps what it had when its Start() was accepted, whatever
\* modifiers are called afterwards: its interval, the context its select
\* waits on, and the callback it calls (or does not call) after the send.
C15_WaitKeepsConfiguration ==
    [][\A w \in DOMAIN waits :
         /\ waits'[w].next = waits[w].next
         /\ (waits[w].pc = "spawned" /\ waits'[w].pc # "spawned")
                => waits'[w].ctx = accepted[w].ctx
         /\ (waits[w].pc = "sent" /\ waits'[w].pc = "done")
                => waits'[w].ran = (IF accepted[w].f # Nil THEN 1 ELSE 0)]_vars

\* A step that is a call of Stop(): the last call returned is a Stop, and the
\* step is not one of a goroutine or of the context after an earlier Stop.
IsStop ==
    /\ ret'.op = "Stop"
    /\ cancelled' = cancelled
    /\ ret.op # "Stop" \/ stopped' # stopped
          \/ \A w \in DOMAIN waits : waits'[w].pc = waits[w].pc

NoneInFlight == \A w \in DOMAIN waits : waits[w].pc \notin InFlight

\* C16: a Stop() called with no wait in flight returns false and changes
\* nothing; no Stop() touches a channel; the Start() that follows a Stop()
\* that returned false creates a new wait with an empty channel of its own; a
\* wait is only ever stopped by a Stop() that returns true while it is in
\* flight; and a wait blocked in its select can take the sleep's case.
C16_IdleStopLeavesNothing ==
    /\ [][(IsStop /\ NoneInFlight)
            => (~ret'.ok /\ waits' = waits /\ stopped' = stopped)]_vars
    /\ [][IsStop => \A w \in DOMAIN waits :
                       /\ waits'[w].ch = waits[w].ch
                       /\ waits'[w].got = waits[w].got]_vars
    /\ [][(ret.op = "Stop" /\ ~ret.ok /\ IsStart /\ ret'.err = Nil)
            => /\ ret'.ch \notin DOMAIN waits
               /\ waits'[ret'.ch].pc = "spawned"
               /\ waits'[ret'.ch].ch = 0 /\ waits'[ret'.ch].got = 0
               /\ \A w \in DOMAIN waits : waits'[w] = waits[w]]_vars
    /\ [][\A w \in DOMAIN waits' :
            (waits'[w].pc = "stopped"
                /\ (w \in DOMAIN waits => waits[w].pc # "stopped"))
            => (/\ IsStop /\ ret'.ok
                /\ w \in DOMAIN waits /\ waits[w].pc \in InFlight)]_vars
    /\ [](\A w \in DOMAIN waits :
            waits[w].pc = "select" => ENABLED Elapse(w))

\* C16, witness: a Stop() has just returned false with no wait in flight,
\* one wait having been abandoned and another having fired and sent.
C16_Witness ==
    /\ ret.op = "Stop" /\ ~ret.ok
    /\ NoneInFlight
    /\ \E w, v \in DOMAIN waits :
          /\ waits[w].pc = "stopped"
          /\ waits[v].pc = "done" /\ waits[v].ch = 1

\* The sum of the intervals of the first n accepted Starts.
RECURSIVE SumNext(_)
SumNext(n) == IF n = 0 THEN 0 ELSE SumNext(n - 1) + waits[n].next

\* C17: total is the sum of the adjusted intervals of the Starts accepted so
\* far, whatever has become of their waits, and only a Start() changes it.
C17_TotalIsSumOfAccepted ==
    /\ [](total = SumNext(Len(waits)))
    /\ [][~IsStart => total' = total]_vars

\* C17, witness: a second Start() has just been accepted, with an interval
\* that jitter or a bound adjusted, after the first wait was stopped.
C17_Witness ==
    /\ ret.op = "Start" /\ ret.err = Nil /\ ret.ch = 2
    /\ ret.next # ret.raw
    /\ waits[1].pc = "stopped" /\ waits[1].next > 0
    /\ total = waits[1].next + waits[2].next

\* C18: a Stop() changes at most one wait, which was in flight and is then
\* stopped, and leaves the others as they were, able to fire; and of two
\* waits accepted under one context and in flight when it was cancelled, when
\* one has been abandoned by the cancellation the other does not fire.
C18_StopOneCancelAll ==
    /\ [][IsStop => \A w, v \in DOMAIN waits :
                       /\ waits'[w] # waits[w]
                            => (waits[w].pc \in InFlight
                                  /\ waits'[w].pc = "stopped")
                       /\ (waits'[w] # waits[w] /\ waits'[v] # waits[v])
                            => w = v]_vars
    /\ [][\A w, v \in DOMAIN waits :
            (/\ w # v
             /\ accepted[w].live /\ accepted[v].live
             /\ accepted[w].ctx = accepted[v].ctx
             /\ accepted[w].ctx \in cancelled
             /\ waits[v].pc = "cancelled"
             /\ waits[w].pc \in InFlight
             /\ WaitCtx(w) = accepted[w].ctx)
            => waits'[w].pc # "fired"]_vars

\* The outcome of a wait: none while it is in flight.
Outcome(w) ==
    CASE waits[w].pc \in InFlight -> "none"
      [] waits[w].pc \in {"fired", "sent", "done"} -> "fired"
      [] waits[w].pc = "cancelled" -> "cancelled"
      [] waits[w].pc = "stopped" -> "stopped"

\* C19: a wait's outcome, once it has one, never changes, whatever Stop() and
\* cancellations follow; its channel is sent at most one value, and only when
\* the outcome is fired; the send can be executed as soon as the sleep's case
\* is taken, with nobody reading; and every wait gets an outcome, and a fired
\* one gets to the end of its goroutine.
C19_WaitResolvesOnce ==
    /\ [][\A w \in DOMAIN waits :
            Outcome(w) # "none"
                => /\ waits'[w].pc \notin InFlight
                   /\ (waits[w].pc = "cancelled") <=> (waits'[w].pc = "cancelled")
                   /\ (waits[w].pc = "stopped") <=> (waits'[w].pc = "stopped")]_vars
    /\ [](\A w \in DOMAIN waits :
            /\ Sent(w) <= 1
            /\ Sent(w) = 1 => Outcome(w) = "fired"
            /\ waits[w].pc = "fired" => ENABLED Send(w))
    /\ \A w \in 1..MaxStarts :
          /\ [](w \in DOMAIN waits
                  => <>(w \in DOMAIN waits /\ Outcome(w) # "none"))
          /\ []((w \in DOMAIN waits /\ Outcome(w) = "fired")
                  => <>(/\ w \in DOMAIN waits
                        /\ waits[w].pc = "done" /\ waits[w].ch = 1))

\* C19, witness: one wait fired and its value lies unread on its channel,
\* another was abandoned by a cancellation, and a Stop() called afterwards
\* found nothing to stop.
C19_Witness ==
    /\ ret.op = "Stop" /\ ~ret.ok
    /\ cancelled # {}
    /\ \E w, v \in DOMAIN waits :
          /\ waits[w].pc = "done" /\ waits[w].ch = 1
          /\ waits[v].pc = "cancelled" /\ waits[v].ch = 0

\* A step that is a call of Reset(), not following another one.
IsReset == ret'.op = "Reset" /\ ret.op # "Reset"

\* C20: a Reset() puts the sequence back at its initial interval and changes
\* nothing else: not the kind or parameters of the sequence, total, the
\* configuration, the context, the callback, the cancellations, or any wait;
\* and a Start() accepted right after it still fits, with what was spent
\* before the Reset(), under the cap on the total.
C20_ResetOnlyMovesSequence ==
    /\ [][IsReset
            => /\ interval' = [interval EXCEPT !.current = interval.initial]
               /\ total' = total
               /\ config' = config
               /\ ctx' = ctx /\ f' = f
               /\ cancelled' = cancelled /\ stopped' = stopped
               /\ waits' = waits]_vars
    /\ [][(ret.op = "Reset" /\ IsStart /\ ret'.err = Nil /\ maxDurationSet)
            => (total' = total + ret'.next /\ total' <= maxDuration)]_vars

\* C20, witness: a Reset() has just returned on a timer whose budget a
\* Start() had found exhausted, with a wait blocked in its select.
C20_Witness ==
    /\ ret.op = "Reset"
    /\ exceeded /\ maxDurationSet /\ total > 0
    /\ interval.kind # "constant"
    /\ \E w \in DOMAIN waits : waits[w].pc = "select"

\* C21: an exponential sequence with a positive initial interval and a
\* positive multiplier never returns a negative interval from next(), and a
\* next() whose product is out of the range of a duration leaves current as
\* it was.
C21_ExponentialNoWraparound ==
    /\ []((/\ ret.op = "Start" /\ ret.err = Nil
           /\ interval.kind = "exponential"
           /\ interval.initial > 0 /\ interval.multiplier > 0)
            => ret.raw >= 0)
    /\ [][(/\ IsStart
            /\ interval.kind = "exponential"
            /\ interval.initial > 0 /\ interval.multiplier > 0
            /\ Trunc(interval.current * interval.multiplier, Scale) > MaxInt64)
            => interval'.current = interval.current]_vars

\* C22, as stated: with a cap set before the first Start() and left as it
\* is, total is at most the cap in every state.
C22_TotalWithinCap ==
    maxDurationSet => total <= maxDuration

\* C22, amended: total is at most the cap in every state when the cap is not
\* negative, and from the first accepted Start() on whatever the cap.
C22_TotalWithinNonNegativeCap ==
    (maxDurationSet /\ (maxDuration >= 0 \/ Len(waits) > 0))
        => total <= maxDuration

\* C22, witness: under a cap that is not negative, a second Start() has
\* been accepted, with an interval that jitter made negative.
C22_Witness ==
    /\ maxDurationSet /\ maxDuration >= 0
    /\ ret.op = "Start" /\ ret.err = Nil
    /\ Len(waits) = 2 /\ waits[1].next > 0 /\ waits[2].next < 0
    /\ total <= maxDuration

\* C23: a Start() that fails with ErrMaxDurationElapsed has taken an element
\* from the sequence, which has moved on by one; the Start() that follows it
\* gets the element after the rejected one (for a linear sequence, the
\* rejected one plus the increment); and a Start() that fails with
\* ErrInvalidSettings leaves the sequence where it was.
C23_RejectedStartAdvances ==
    /\ [][(IsStart /\ ret'.err = ErrMaxDurationElapsed)
            => /\ ret'.raw = interval.current
               /\ nth' = nth + 1
               /\ interval' = IntervalNext(interval).seq]_vars
    /\ [][(/\ ret.op = "Start" /\ ret.err = ErrMaxDurationElapsed
            /\ IsStart /\ ret'.err # ErrInvalidSettings
            /\ interval.kind = "linear")
            => ret'.raw = ret.raw + interval.increment]_vars
    /\ [][(IsStart /\ ret'.err = ErrInvalidSettings)
            => (interval' = interval /\ nth' = nth)]_vars

\* C23, witness: the first Start() of a linear timer was rejected for the
\* cap, and the second was accepted with the initial interval plus the
\* increment.
C23_Witness ==
    /\ exceeded /\ maxDurationSet
    /\ starts = 2 /\ nth = 2
    /\ ret.op = "Start" /\ ret.err = Nil /\ Len(waits) = 1
    /\ interval.kind = "linear"
    /\ ret.raw = interval.initial + interval.increment

====
